---------------------------- MODULE Spec2Model ----------------------------
(***************************************************************************)
(* Model of src/app.py: the agenda-to-letters pipeline of "Pemakluman      *)
(* Keputusan JKOSC".  A text is a sequence of characters (one-character    *)
(* strings), so that the regular expressions, the formatting and the       *)
(* whitespace handling of the program are computed, not assumed.           *)
(***************************************************************************)
EXTENDS Integers, Sequences, FiniteSets, TLC

(* ----------------------------- characters ----------------------------- *)

\* U+00A0 (no-break space) and U+FF1A (fullwidth colon), each one character.
NBSP == "<U+00A0>"
FWCOLON == "<U+FF1A>"

Digits == <<"0", "1", "2", "3", "4", "5", "6", "7", "8", "9">>
LowerCase == <<"a", "b", "c", "d", "e", "f", "g", "h", "i", "j", "k", "l", "m", "n", "o", "p", "q", "r", "s", "t", "u", "v", "w", "x", "y", "z">>
UpperCase == <<"A", "B", "C", "D", "E", "F", "G", "H", "I", "J", "K", "L", "M", "N", "O", "P", "Q", "R", "S", "T", "U", "V", "W", "X", "Y", "Z">>

None == <<>>
Some(x) == <<x>>
Get(o) == o[1]

Range(s) == {s[i] : i \in 1..Len(s)}
Min(S) == CHOOSE x \in S : \A y \in S : x <= y

\* The characters of each class, as sets.
DigitSet == Range(Digits)
LowerSet == Range(LowerCase)
UpperSet == Range(UpperCase)
SpaceSet == {" ", "\t", "\n", "\r", "\f", NBSP}

IsDigit(c) == c \in DigitSet
DigitVal(c) == (CHOOSE i \in 1..10 : Digits[i] = c) - 1
IsLower(c) == c \in LowerSet
IsUpper(c) == c \in UpperSet
\* \w of Python's re on str: letters, digits and the underscore.
IsWord(c) == IsLower(c) \/ IsUpper(c) \/ IsDigit(c) \/ c = "_"
\* \s of Python's re on str, and what str.strip() strips.
IsSpace(c) == c \in SpaceSet

UpperChar(c) == IF IsLower(c) THEN UpperCase[CHOOSE i \in 1..26 : LowerCase[i] = c] ELSE c
LowerChar(c) == IF IsUpper(c) THEN LowerCase[CHOOSE i \in 1..26 : UpperCase[i] = c] ELSE c
\* str.upper()
upper(s) == [i \in 1..Len(s) |-> UpperChar(s[i])]

\* unicodedata.normalize("NFKC", s) on the characters of the model.
NFKC(s) == [i \in 1..Len(s) |-> IF s[i] = NBSP THEN " " ELSE IF s[i] = FWCOLON THEN ":" ELSE s[i]]

(* ------------------------------- strings ------------------------------ *)

RECURSIVE SkipSpace(_, _)
\* The position after a maximal run of whitespace starting at i (regex \s*).
SkipSpace(s, i) == IF i <= Len(s) /\ IsSpace(s[i]) THEN SkipSpace(s, i + 1) ELSE i

RECURSIVE SkipSpaceBack(_, _)
SkipSpaceBack(s, j) == IF j >= 1 /\ IsSpace(s[j]) THEN SkipSpaceBack(s, j - 1) ELSE j

\* str.strip()
strip(s) ==
    LET a == SkipSpace(s, 1)
        b == SkipSpaceBack(s, Len(s))
    IN IF a > b THEN <<>> ELSE SubSeq(s, a, b)

RECURSIVE CollapseSpace(_, _)
\* re.sub(r"\s+", " ", s) from position i on.
CollapseSpace(s, i) ==
    IF i > Len(s) THEN <<>>
    ELSE IF IsSpace(s[i]) THEN <<" ">> \o CollapseSpace(s, SkipSpace(s, i))
    ELSE <<s[i]>> \o CollapseSpace(s, i + 1)

normalize_space(s) == strip(CollapseSpace(NFKC(s), 1))

RECURSIVE AlphaRun(_, _)
\* The number of consecutive letters from position i on.
AlphaRun(s, i) == IF i <= Len(s) /\ (IsLower(s[i]) \/ IsUpper(s[i])) THEN 1 + AlphaRun(s, i + 1) ELSE 0

RECURSIVE DigitRun(_, _)
\* The number of consecutive digits from position i on.
DigitRun(s, i) == IF i <= Len(s) /\ IsDigit(s[i]) THEN 1 + DigitRun(s, i + 1) ELSE 0

RECURSIVE ParseInt(_, _, _)
\* int() of the n digits that start at position i.
ParseInt(s, i, n) == IF n = 0 THEN 0 ELSE 10 * ParseInt(s, i, n - 1) + DigitVal(s[i + n - 1])

RECURSIVE IntToStr(_)
\* str() of a natural number.
IntToStr(n) == IF n < 10 THEN <<Digits[n + 1]>> ELSE IntToStr(n \div 10) \o <<Digits[(n % 10) + 1]>>

\* format(n, "02d") and format(n, "03d")
Pad(n, w) ==
    LET d == IntToStr(n)
    IN [i \in 1..(IF Len(d) < w THEN w - Len(d) ELSE 0) |-> "0"] \o d

\* The literal lit stands at position i of s; with re.IGNORECASE when ic.
MatchLit(s, i, lit, ic) ==
    /\ i >= 1
    /\ i + Len(lit) - 1 <= Len(s)
    /\ \A k \in 1..Len(lit) :
          IF ic THEN UpperChar(s[i + k - 1]) = UpperChar(lit[k]) ELSE s[i + k - 1] = lit[k]

\* regex \b between positions i-1 and i.
WordBoundary(s, i) ==
    LET before == i - 1 >= 1 /\ i - 1 <= Len(s) /\ IsWord(s[i - 1])
        after == i >= 1 /\ i <= Len(s) /\ IsWord(s[i])
    IN before # after

\* The first position of an occurrence of lit in s, 0 when there is none.
Find(s, lit, ic) ==
    LET hits == {i \in 1..Len(s) : MatchLit(s, i, lit, ic)}
    IN IF hits = {} THEN 0 ELSE Min(hits)

\* "\n".join(lines)
RECURSIVE JoinLines(_)
JoinLines(lines) ==
    IF lines = <<>> THEN <<>>
    ELSE IF Len(lines) = 1 THEN lines[1]
    ELSE lines[1] \o <<"\n">> \o JoinLines(Tail(lines))

(* ---------------------------- meeting parser --------------------------- *)

MALAY_MONTHS == <<
    [key |-> <<"J", "A", "N", "U", "A", "R", "I">>, name |-> <<"J", "a", "n", "u", "a", "r", "i">>, num |-> 1],
    [key |-> <<"F", "E", "B", "R", "U", "A", "R", "I">>, name |-> <<"F", "e", "b", "r", "u", "a", "r", "i">>, num |-> 2],
    [key |-> <<"M", "A", "C">>, name |-> <<"M", "a", "c">>, num |-> 3],
    [key |-> <<"A", "P", "R", "I", "L">>, name |-> <<"A", "p", "r", "i", "l">>, num |-> 4],
    [key |-> <<"M", "E", "I">>, name |-> <<"M", "e", "i">>, num |-> 5],
    [key |-> <<"J", "U", "N">>, name |-> <<"J", "u", "n">>, num |-> 6],
    [key |-> <<"J", "U", "L", "A", "I">>, name |-> <<"J", "u", "l", "a", "i">>, num |-> 7],
    [key |-> <<"O", "G", "O", "S">>, name |-> <<"O", "g", "o", "s">>, num |-> 8],
    [key |-> <<"S", "E", "P", "T", "E", "M", "B", "E", "R">>, name |-> <<"S", "e", "p", "t", "e", "m", "b", "e", "r">>, num |-> 9],
    [key |-> <<"O", "K", "T", "O", "B", "E", "R">>, name |-> <<"O", "k", "t", "o", "b", "e", "r">>, num |-> 10],
    [key |-> <<"N", "O", "V", "E", "M", "B", "E", "R">>, name |-> <<"N", "o", "v", "e", "m", "b", "e", "r">>, num |-> 11],
    [key |-> <<"D", "I", "S", "E", "M", "B", "E", "R">>, name |-> <<"D", "i", "s", "e", "m", "b", "e", "r">>, num |-> 12] >>

\* Monday = 0
MALAY_DOW == << <<"I", "s", "n", "i", "n">>, <<"S", "e", "l", "a", "s", "a">>, <<"R", "a", "b", "u">>, <<"K", "h", "a", "m", "i", "s">>, <<"J", "u", "m", "a", "a", "t">>, <<"S", "a", "b", "t", "u">>, <<"A", "h", "a", "d">> >>

\* r"\bBIL\.?\s*(\d{1,3})/(\d{4})\b" with re.IGNORECASE, tried at position i.
BilMatchAt(t, i) ==
    LET a == i + 3
        b == IF a <= Len(t) /\ t[a] = "." THEN a + 1 ELSE a
        c == SkipSpace(t, b)
        n == DigitRun(t, c)
        d == c + n
    IN IF /\ WordBoundary(t, i)
          /\ MatchLit(t, i, <<"B", "I", "L">>, TRUE)
          /\ n \in 1..3
          /\ d <= Len(t) /\ t[d] = "/"
          /\ DigitRun(t, d + 1) >= 4
          /\ WordBoundary(t, d + 5)
       THEN Some([bil_num |-> ParseInt(t, c, n), year |-> ParseInt(t, d + 1, 4)])
       ELSE None

\* re.search: the match at the leftmost position that has one.
BilSearch(t) ==
    LET hits == {i \in 1..Len(t) : BilMatchAt(t, i) # None}
    IN IF hits = {} THEN None ELSE BilMatchAt(t, Min(hits))

\* The month alternative of the date pattern that stands at position i (0: none);
\* no name is a prefix of another, so at most one does.
MonthAt(t, i) ==
    LET ms == {k \in 1..Len(MALAY_MONTHS) : MatchLit(t, i, MALAY_MONTHS[k].key, TRUE)}
    IN IF ms = {} THEN 0 ELSE Min(ms)

\* r"\b(\d{1,2})\s*(JANUARI|...|DISEMBER)\s*(\d{4})\b" with re.IGNORECASE at i.
DateMatchAt(t, i) ==
    LET n == DigitRun(t, i)
        a == SkipSpace(t, i + n)
        k == MonthAt(t, a)
        b == IF k = 0 THEN a ELSE SkipSpace(t, a + Len(MALAY_MONTHS[k].key))
    IN IF /\ WordBoundary(t, i)
          /\ n \in 1..2
          /\ k # 0
          /\ DigitRun(t, b) >= 4
          /\ WordBoundary(t, b + 4)
       THEN Some([day |-> ParseInt(t, i, n), mon |-> k, yr |-> ParseInt(t, b, 4), end |-> b + 4])
       ELSE None

DateSearch(t) ==
    LET hits == {i \in 1..Len(t) : DateMatchAt(t, i) # None}
    IN IF hits = {} THEN None ELSE DateMatchAt(t, Min(hits))

\* datetime: _is_leap, _days_in_month, _days_before_year, _days_before_month
IsLeap(y) == y % 4 = 0 /\ (y % 100 # 0 \/ y % 400 = 0)
DaysInMonth(y, m) ==
    IF m = 2 THEN (IF IsLeap(y) THEN 29 ELSE 28)
    ELSE IF m \in {4, 6, 9, 11} THEN 30 ELSE 31
DaysBeforeYear(y) == (y - 1) * 365 + ((y - 1) \div 4) - ((y - 1) \div 100) + ((y - 1) \div 400)
RECURSIVE DaysBeforeMonth(_, _)
DaysBeforeMonth(y, m) == IF m = 1 THEN 0 ELSE DaysBeforeMonth(y, m - 1) + DaysInMonth(y, m - 1)

\* datetime.date(y, m, d) raises ValueError outside these ranges.
ValidDate(y, m, d) == y \in 1..9999 /\ m \in 1..12 /\ d >= 1 /\ d <= DaysInMonth(y, m)
\* date.toordinal() and date.weekday(): Monday is 0.
ToOrdinal(y, m, d) == DaysBeforeYear(y) + DaysBeforeMonth(y, m) + d
\* A faulty variant of Weekday: the ordinal taken as if day 1 were a Sunday.
Weekday_SundayFirst(y, m, d) == ToOrdinal(y, m, d) % 7
Weekday(y, m, d) == (ToOrdinal(y, m, d) + 6) % 7

\* The date of a match m2 of the date pattern is a calendar date.
DateOk(m2) == m2 # None /\ ValidDate(Get(m2).yr, Get(m2).mon, Get(m2).day)

\* date_str = f"{day} {mon_name} {yr}"
date_str(g) == IntToStr(g.day) \o <<" ">> \o MALAY_MONTHS[g.mon].name \o <<" ">> \o IntToStr(g.yr)

\* What extract_meeting_bil_and_date returns for the matches m and m2 (None: no match).
MeetingInfo(m, m2) ==
    [bil_num |-> IF m # None THEN Some(Get(m).bil_num) ELSE None,
     meeting_year |-> IF m # None THEN Some(Get(m).year) ELSE None,
     date_str |-> IF m2 # None THEN Some(date_str(Get(m2))) ELSE None,
     dt |-> IF DateOk(m2) THEN Some(<<Get(m2).yr, Get(m2).mon, Get(m2).day>>) ELSE None,
     dow |-> IF DateOk(m2)
             THEN Some(MALAY_DOW[Weekday(Get(m2).yr, Get(m2).mon, Get(m2).day) + 1])
             ELSE None]

extract_meeting_bil_and_date(full_text) == MeetingInfo(BilSearch(full_text), DateSearch(full_text))

(* ----------------------------- case parser ----------------------------- *)

\* A document as python-docx reads it: the body's paragraphs, and the tables
\* (rows of cells of paragraphs), which Document.paragraphs does not include.
\* readable is FALSE for bytes Document() cannot open.
TextExtractor(doc) ==
    LET stripped == [i \in 1..Len(doc.paragraphs) |-> strip(doc.paragraphs[i])]
    IN SelectSeq(stripped, LAMBDA p : p # <<>>)

\* up.startswith("KERTAS MESYUARAT") and "OSC/" in up
IsBlockStart(p) ==
    LET up == upper(p)
    IN MatchLit(up, 1, <<"K", "E", "R", "T", "A", "S", " ", "M", "E", "S", "Y", "U", "A", "R", "A", "T">>, FALSE) /\ Find(up, <<"O", "S", "C", "/">>, FALSE) # 0

\* A faulty variant of HeaderMatchAt: any three letters are taken as a category.
HeaderMatchAt_AnyCategory(h, i) ==
    LET n == DigitRun(h, i + 8)
        d == i + 8 + n
    IN IF /\ MatchLit(h, i, <<"O", "S", "C", "/">>, TRUE)
          /\ AlphaRun(h, i + 4) = 3
          /\ MatchLit(h, i + 7, <<"/">>, TRUE)
          /\ n \in 1..3
          /\ d <= Len(h) /\ h[d] = "/"
          /\ DigitRun(h, d + 1) >= 4
       THEN Some([jenis_code |-> upper(SubSeq(h, i + 4, i + 6)),
                  kertas_no |-> ParseInt(h, i + 8, n),
                  kertas_year |-> ParseInt(h, d + 1, 4)])
       ELSE None

\* r"OSC/(PKM|BGN)/(\d{1,3})/(\d{4})" with re.IGNORECASE, tried at position i.
HeaderMatchAt(h, i) ==
    LET n == DigitRun(h, i + 8)
        d == i + 8 + n
    IN IF /\ MatchLit(h, i, <<"O", "S", "C", "/">>, TRUE)
          /\ (MatchLit(h, i + 4, <<"P", "K", "M">>, TRUE) \/ MatchLit(h, i + 4, <<"B", "G", "N">>, TRUE))
          /\ MatchLit(h, i + 7, <<"/">>, TRUE)
          /\ n \in 1..3
          /\ d <= Len(h) /\ h[d] = "/"
          /\ DigitRun(h, d + 1) >= 4
       THEN Some([jenis_code |-> upper(SubSeq(h, i + 4, i + 6)),
                  kertas_no |-> ParseInt(h, i + 8, n),
                  kertas_year |-> ParseInt(h, d + 1, 4)])
       ELSE None

HeaderSearch(h) ==
    LET hits == {i \in 1..Len(h) : HeaderMatchAt(h, i) # None}
    IN IF hits = {} THEN None ELSE HeaderMatchAt(h, Min(hits))

\* re.match(rf"^{re.escape(pref)}\s*:?", ln, flags=re.IGNORECASE): \s* and :? also
\* match nothing, so the line matches as soon as it starts with pref.
PrefixMatch(pref, ln) == MatchLit(ln, 1, pref, TRUE)

\* re.split(r"\s*:\s*", ln, maxsplit=1): parts[1].strip() if there is a colon, else "".
AfterColon(ln) ==
    LET c == Find(ln, <<":">>, FALSE)
    IN IF c = 0 THEN <<>> ELSE strip(SubSeq(ln, SkipSpace(ln, c + 1), Len(ln)))

find_value(lines, prefixes) ==
    LET hits == {i \in 1..Len(lines) : \E k \in 1..Len(prefixes) : PrefixMatch(prefixes[k], lines[i])}
    IN IF hits = {} THEN <<>> ELSE AfterColon(lines[Min(hits)])

\* The alternatives of field_pat, each a list of literals with \s* between them.
FieldLabels == <<
    << <<"P", "e", "m", "o", "h", "o", "n">> >>, << <<"P", "e", "r", "u", "n", "d", "i", "n", "g">> >>, << <<"L", "o", "k", "a", "s", "i">> >>, << <<"K", "o", "o", "r", "d", "i", "n", "a", "t">> >>,
    << <<"N", "o", ".">>, <<"R", "u", "j", "u", "k", "a", "n">> >>, << <<"P", "e", "l", "a", "n">>, <<"S", "u", "s", "u", "n", "a", "t", "u", "r">> >>,
    << <<"N", "o", ".">>, <<"R", "u", "j", "u", "k", "a", "n">>, <<"O", "S", "C">> >> >>

RECURSIVE PiecesEnd(_, _, _)
\* The position after pieces matched from i with \s* between them, 0 if they do not match.
PiecesEnd(ln, i, pieces) ==
    IF pieces = <<>> THEN i
    ELSE IF MatchLit(ln, i, pieces[1], TRUE)
         THEN (IF Len(pieces) = 1 THEN i + Len(pieces[1])
               ELSE PiecesEnd(ln, SkipSpace(ln, i + Len(pieces[1])), Tail(pieces)))
         ELSE 0

\* field_pat.search(ln): "^(Pemohon|...|No\.\s*Rujukan\s*OSC)\b" with re.IGNORECASE.
field_pat(ln) ==
    \E k \in 1..Len(FieldLabels) :
        LET e == PiecesEnd(ln, 1, FieldLabels[k])
        IN e # 0 /\ WordBoundary(ln, e)

RECURSIVE nama_lines(_)
\* The lines before the first one field_pat matches.
nama_lines(lines) ==
    IF lines = <<>> \/ field_pat(lines[1]) THEN <<>>
    ELSE <<lines[1]>> \o nama_lines(Tail(lines))

\* A faulty variant of BeforePemohon: the pattern without its word boundaries.
BeforePemohon_NoBoundary(s) ==
    LET hits == {i \in 1..Len(s) : MatchLit(s, i, <<"P", "e", "m", "o", "h", "o", "n">>, TRUE)}
    IN strip(IF hits = {} THEN s ELSE SubSeq(s, 1, Min(hits) - 1))

\* re.split(r"\bPemohon\b", s, flags=re.IGNORECASE)[0].strip()
BeforePemohon(s) ==
    LET hits == {i \in 1..Len(s) : /\ MatchLit(s, i, <<"P", "e", "m", "o", "h", "o", "n">>, TRUE)
                                   /\ WordBoundary(s, i)
                                   /\ WordBoundary(s, i + 7)}
    IN strip(IF hits = {} THEN s ELSE SubSeq(s, 1, Min(hits) - 1))

nama_permohonan(lines) == BeforePemohon(strip(JoinLines(nama_lines(lines))))

jenis_display(code) == IF code = <<"P", "K", "M">> THEN <<"K", "e", "b", "e", "n", "a", "r", "a", "n", " ", "M", "e", "r", "a", "n", "c", "a", "n", "g">> ELSE <<"B", "a", "n", "g", "u", "n", "a", "n">>

\* The positions (1-based) of the paragraphs that start a block.
block_starts(paras) == SelectSeq([i \in 1..Len(paras) |-> i], LAMBDA i : IsBlockStart(paras[i]))

\* A faulty variant of Block: the block runs on through the starts whose header
\* does not match, up to the next start whose header matches, or to the end.
Block_ThroughDiscarded(paras, starts, idx) ==
    LET later == {j \in idx + 1..Len(starts) : HeaderSearch(paras[starts[j]]) # None}
    IN SubSeq(paras, starts[idx], IF later = {} THEN Len(paras) ELSE starts[Min(later)] - 1)

\* The block of the idx-th start: up to the next start, or to the end.
Block(paras, starts, idx) ==
    SubSeq(paras, starts[idx], IF idx + 1 <= Len(starts) THEN starts[idx + 1] - 1 ELSE Len(paras))

\* lines = [normalize_space(x) for x in block[1:] if normalize_space(x)]
BlockLines(block) ==
    SelectSeq([i \in 1..Len(block) - 1 |-> normalize_space(block[i + 1])], LAMBDA x : x # <<>>)

\* The case of a block that starts at start_i, whose header matched with m and
\* whose lines are lines; None ("continue") when the header did not match.
CaseOf(start_i, m, lines) ==
    IF m = None THEN None
    ELSE Some([start_i |-> start_i,
               jenis_code |-> Get(m).jenis_code,
               jenis_display |-> jenis_display(Get(m).jenis_code),
               kertas_no |-> Get(m).kertas_no,
               kertas_year |-> Get(m).kertas_year,
               nama_permohonan |-> nama_permohonan(lines),
               pemohon |-> find_value(lines, << <<"P", "e", "m", "o", "h", "o", "n">> >>),
               perunding |-> find_value(lines, << <<"P", "e", "r", "u", "n", "d", "i", "n", "g">> >>),
               no_ruj_osc |-> find_value(lines, << <<"N", "o", ".", " ", "R", "u", "j", "u", "k", "a", "n", " ", "O", "S", "C">> >>)])

\* One iteration of the loop over block_starts (start_i counts from 0).
ParseBlock(paras, starts, idx) ==
    CaseOf(starts[idx] - 1, HeaderSearch(Block(paras, starts, idx)[1]),
           BlockLines(Block(paras, starts, idx)))

\* The optional case c as a list of no or one case.
OptSeq(c) == IF c = None THEN <<>> ELSE <<Get(c)>>

RECURSIVE CollectCases(_, _, _)
CollectCases(paras, starts, idx) ==
    IF idx > Len(starts) THEN <<>>
    ELSE OptSeq(ParseBlock(paras, starts, idx)) \o CollectCases(paras, starts, idx + 1)

RECURSIVE SortByStart(_)
\* cases.sort(key=lambda x: x["start_i"]): a stable insertion sort.
SortByStart(cs) ==
    IF Len(cs) <= 1 THEN cs
    ELSE LET rest == SortByStart(Tail(cs))
             k == Cardinality({j \in 1..Len(rest) : rest[j].start_i < cs[1].start_i})
         IN SubSeq(rest, 1, k) \o <<cs[1]>> \o SubSeq(rest, k + 1, Len(rest))

\* for i, c in enumerate(cases, start=1): c["global_idx"] = i
AssignIdx(cs) ==
    [i \in 1..Len(cs) |->
        [start_i |-> cs[i].start_i, jenis_code |-> cs[i].jenis_code,
         jenis_display |-> cs[i].jenis_display, kertas_no |-> cs[i].kertas_no,
         kertas_year |-> cs[i].kertas_year, nama_permohonan |-> cs[i].nama_permohonan,
         pemohon |-> cs[i].pemohon, perunding |-> cs[i].perunding,
         no_ruj_osc |-> cs[i].no_ruj_osc, global_idx |-> i]]

\* The dictionary parse_agenda_docx returns.
MeetingDict(info, cases) ==
    [bil_num |-> info.bil_num, meeting_year |-> info.meeting_year,
     date_str |-> info.date_str, dt |-> info.dt, dow |-> info.dow, cases |-> cases]

\* parse_agenda_docx from the Line Sequence on.
ParseParas(ps) ==
    MeetingDict(extract_meeting_bil_and_date(JoinLines(ps)),
                AssignIdx(SortByStart(CollectCases(ps, block_starts(ps), 1))))

parse_agenda_docx(doc) == ParseParas(TextExtractor(doc))

(* --------------------------- letter renderer --------------------------- *)

\* Python's "x or d" on an optional integer and on an optional string.
IntOr(o, d) == IF o = None \/ Get(o) = 0 THEN d ELSE Get(o)
StrOr(o, d) == IF o = None \/ Get(o) = <<>> THEN d ELSE Get(o)

\* year = meeting["meeting_year"] or case["kertas_year"]
LetterYear(case, meeting) == IntOr(meeting.meeting_year, case.kertas_year)

\* A faulty variant of rujukan_kami: the meeting's sequence number and the case's index.
rujukan_kami_meeting_seq(case, meeting) ==
    <<"(">> \o IntToStr(IntOr(meeting.bil_num, 0)) \o <<")", "M", "B", "S", "P", "/", "1", "5", "/", "1", "5", "5", "1", "/", "(">>
    \o IntToStr(case.global_idx) \o <<")">> \o IntToStr(LetterYear(case, meeting))

\* rujukan_kami = f"({idx})MBSP/15/1551/( ){year}"
rujukan_kami(case, meeting) ==
    <<"(">> \o IntToStr(case.global_idx) \o <<")", "M", "B", "S", "P", "/", "1", "5", "/", "1", "5", "5", "1", "/", "(", " ", ")">> \o IntToStr(LetterYear(case, meeting))

\* tarikh_dow = f"{tarikh_str} ({dow})" if tarikh_str and dow else tarikh_str
tarikh_dow(meeting) ==
    LET tarikh_str == StrOr(meeting.date_str, <<>>)
    IN IF tarikh_str # <<>> /\ meeting.dow # None /\ Get(meeting.dow) # <<>>
       THEN tarikh_str \o <<" ", "(">> \o Get(meeting.dow) \o <<")">>
       ELSE tarikh_str

\* A value of the info table: values[i] if values[i] else "-"
Shown(v) == IF v = <<>> THEN <<"-">> ELSE v

\* The letter, as the texts the program writes into it: the reference block
\* (Rujukan Kami, Tarikh), the five values of the info table and the sentence
\* of paragraph 2 that names the meeting.
build_pemakluman_doc(case, meeting) ==
    [rujukan_kami |-> rujukan_kami(case, meeting),
     tarikh |-> StrOr(meeting.date_str, <<>>),
     info |-> <<Shown(case.perunding), Shown(case.pemohon), Shown(case.jenis_display),
                case.nama_permohonan, Shown(case.no_ruj_osc)>>,
     para2 |-> <<"B", "i", "l", ".">> \o Pad(IntOr(meeting.bil_num, 0), 2) \o <<"/">>
               \o IntToStr(LetterYear(case, meeting))
               \o <<" ", "y", "a", "n", "g", " ", "b", "e", "r", "s", "i", "d", "a", "n", "g", " ", "p", "a", "d", "a", " ">> \o tarikh_dow(meeting)]

(* --------------------------- archive builder --------------------------- *)

RECURSIVE Replace(_, _, _)
\* str.replace(old, new): every occurrence, left to right, without overlap.
Replace(s, old, new) ==
    IF s = <<>> THEN <<>>
    ELSE IF MatchLit(s, 1, old, FALSE)
         THEN new \o Replace(SubSeq(s, Len(old) + 1, Len(s)), old, new)
         ELSE <<s[1]>> \o Replace(Tail(s), old, new)

RECURSIVE SpacesToUnderscore(_, _)
\* re.sub(r"\s+", "_", s) from position i on.
SpacesToUnderscore(s, i) ==
    IF i > Len(s) THEN <<>>
    ELSE IF IsSpace(s[i]) THEN <<"_">> \o SpacesToUnderscore(s, SkipSpace(s, i))
    ELSE <<s[i]>> \o SpacesToUnderscore(s, i + 1)

safe_filename(s) ==
    LET kept == SelectSeq(strip(s), LAMBDA c : c \notin {"\\", "/", "*", "?", ":", "\"", "<", ">", "|"})
        t == SpacesToUnderscore(kept, 1)
    IN IF t = <<>> THEN <<"D", "o", "k", "u", "m", "e", "n">>
       ELSE SubSeq(t, 1, IF Len(t) < 60 THEN Len(t) ELSE 60)

\* A faulty variant of fname: the Reference Number with its path separators replaced.
fname_from_rujukan(case, meeting) == Replace(rujukan_kami(case, meeting), <<"/">>, <<"-">>) \o <<".", "d", "o", "c", "x">>

\* A faulty variant of fname: the name without the case's index.
fname_without_idx(case, meeting) ==
    LET no_str == IF case.jenis_code = <<"P", "K", "M">> THEN Pad(case.kertas_no, 2) ELSE Pad(case.kertas_no, 3)
        pemohon == safe_filename(strip(Replace(case.pemohon, <<"T", "e", "t", "u", "a", "n", " ">>, <<>>)))
    IN <<"O", "S", "C", "_">> \o case.jenis_code \o <<"_">> \o no_str \o <<"_">>
       \o IntToStr(LetterYear(case, meeting)) \o <<"_">> \o pemohon \o <<".", "d", "o", "c", "x">>

\* fname = f"{idx:02d}_OSC_{code}_{no_str}_{year}_{pemohon}.docx"
fname(case, meeting) ==
    LET no_str == IF case.jenis_code = <<"P", "K", "M">> THEN Pad(case.kertas_no, 2) ELSE Pad(case.kertas_no, 3)
        pemohon == safe_filename(strip(Replace(case.pemohon, <<"T", "e", "t", "u", "a", "n", " ">>, <<>>)))
    IN Pad(case.global_idx, 2) \o <<"_", "O", "S", "C", "_">> \o case.jenis_code \o <<"_">> \o no_str \o <<"_">>
       \o IntToStr(LetterYear(case, meeting)) \o <<"_">> \o pemohon \o <<".", "d", "o", "c", "x">>

\* The archive: one entry per case, written in the order of meeting["cases"];
\* ZipFile.writestr appends an entry even when its name is already in use.
make_zip(meeting) ==
    [i \in 1..Len(meeting.cases) |->
        [name |-> fname(meeting.cases[i], meeting),
         doc |-> build_pemakluman_doc(meeting.cases[i], meeting)]]

(* ------------------------------- inputs -------------------------------- *)

\* The most body paragraphs and the most cells of a table row in an uploaded
\* document of the pipeline, and the most paragraphs of an agenda given to the
\* parser alone.
MaxParas == 3
MaxCells == 1
MaxAgendaLines == 4

SeqsUpTo(S, n) == UNION {[1..k -> S] : k \in 0..n}

\* Paragraphs of an uploaded document, as written in the file.
BodyPool == {
    <<"B", "I", "L", ".", " ", "2", "/", "2", "0", "2", "6">>,
    <<"b", "i", "l", " ", "3", "/", "0", "0", "0", "0">>,
    <<" ", "1", "2", " ", "J", "A", "N", "U", "A", "R", "I", " ", "2", "0", "2", "6", " ", "(", "A", "H", "A", "D", ")">>,
    <<"3", "1", " ", "A", "p", "r", "i", "l", " ", "2", "0", "2", "6">>,
    <<"1", " ", "M", "a", "c", " ", "2", "0", "2", "4">>,
    <<"K", "E", "R", "T", "A", "S", " ", "M", "E", "S", "Y", "U", "A", "R", "A", "T", " ", "O", "S", "C", "/", "P", "K", "M", "/", "1", "/", "2", "0", "2", "6">>,
    <<"K", "e", "r", "t", "a", "s", " ", "M", "e", "s", "y", "u", "a", "r", "a", "t", " ", "B", "i", "l", ".", " ", "o", "s", "c", "/", "b", "g", "n", "/", "7", "/", "2", "0", "2", "5">>,
    <<"P", "e", "m", "o", "h", "o", "n", ":", " ", "T", "e", "t", "u", "a", "n", " ", "A", "/", "B", " ", " ", "C">>,
    <<" ", " ">> }

\* Paragraphs that stand in table cells.
TablePool == { <<"K", "E", "R", "T", "A", "S", " ", "M", "E", "S", "Y", "U", "A", "R", "A", "T", " ", "O", "S", "C", "/", "B", "G", "N", "/", "9", "/", "2", "0", "2", "6">> }

\* No table, or one table of one row whose cells hold one paragraph each.
TableChoices ==
    {<<>>} \cup { << << [c \in 1..Len(row) |-> <<row[c]>>] >> >> : row \in SeqsUpTo(TablePool, MaxCells) \ {<<>>} }

Corrupt == [readable |-> FALSE, paragraphs |-> <<>>, tables |-> <<>>]

Uploads ==
    {Corrupt} \cup
    {[readable |-> TRUE, paragraphs |-> ps, tables |-> ts] :
        ps \in SeqsUpTo(BodyPool, MaxParas), ts \in TableChoices}

\* Paragraphs of a case block and around it.
AgendaPool == {
    <<"K", "E", "R", "T", "A", "S", " ", "M", "E", "S", "Y", "U", "A", "R", "A", "T", " ", "O", "S", "C", "/", "P", "K", "M", "/", "1", "/", "2", "0", "2", "6">>,
    <<"K", "e", "r", "t", "a", "s", " ", "M", "e", "s", "y", "u", "a", "r", "a", "t", " ", "B", "i", "l", ".", " ", "o", "s", "c", "/", "b", "g", "n", "/", "1", "2", "/", "2", "0", "2", "5">>,
    <<"K", "E", "R", "T", "A", "S", " ", "M", "E", "S", "Y", "U", "A", "R", "A", "T", " ", "O", "S", "C", "/", "X", "Y", "Z", "/", "2", "/", "2", "0", "2", "6">>,
    <<"P", "e", "m", "o", "h", "o", "n", ":", " ", "J", "o", "h", "n">>,
    <<"D", "o", "e", " ", " ", "C", "o">>,
    <<"P", "e", "r", "u", "n", "d", "i", "n", "g", FWCOLON, " ", "X", "Y", "Z">>,
    <<"P", "e", "m", "o", "h", "o", "n", "a", "n", " ", "b", "a", "r", "u">>,
    <<"P", "r", "o", "j", "e", "k", " ", "P", "e", "m", "o", "h", "o", "n", " ", "A", "B", "C">>,
    <<"N", "o", ".", " ", "R", "u", "j", "u", "k", "a", "n", " ", "O", "S", "C", " ", ":", " ", "R", "/", "1">> }

Agendas ==
    {Corrupt} \cup
    {[readable |-> TRUE, paragraphs |-> ps, tables |-> <<>>] : ps \in SeqsUpTo(AgendaPool, MaxAgendaLines)}

(* ---------------------------- the program ------------------------------ *)

VARIABLES
    pc,        \* where the script stands: upload, parse, summary, zip, download, stopped, crashed
    uploaded,  \* the uploaded document, None before the upload
    paras,     \* the Line Sequence parse_agenda_docx read from it
    meeting,   \* what parse_agenda_docx returned, None before
    zip_buf,   \* the entries of the archive, None before make_zip
    error      \* the error shown or raised, None if none

vars == <<pc, uploaded, paras, meeting, zip_buf, error>>

\* st.file_uploader returned None: the script stops and waits for a file.
Init ==
    /\ pc = "upload"
    /\ uploaded = None
    /\ paras = <<>>
    /\ meeting = None
    /\ zip_buf = None
    /\ error = None

\* The user uploads a file; the script runs again with it.
Upload ==
    /\ pc = "upload"
    /\ \E d \in Uploads : uploaded' = Some(d)
    /\ pc' = "parse"
    /\ UNCHANGED <<paras, meeting, zip_buf, error>>

\* meeting = parse_agenda_docx(uploaded.read())
ParseOk ==
    /\ pc = "parse"
    /\ Get(uploaded).readable
    /\ paras' = TextExtractor(Get(uploaded))
    /\ meeting' = Some(parse_agenda_docx(Get(uploaded)))
    /\ pc' = "summary"
    /\ UNCHANGED <<uploaded, zip_buf, error>>

\* Document() raises on bytes it cannot read: st.error(...), st.stop()
ParseFail ==
    /\ pc = "parse"
    /\ ~Get(uploaded).readable
    /\ error' = Some("Gagal baca DOCX")
    /\ pc' = "stopped"
    /\ UNCHANGED <<uploaded, paras, meeting, zip_buf>>

\* st.success(f"Jumpa Bil.: {bil_num:02d}/..."): format(None, "02d") raises TypeError.
ShowSummary ==
    /\ pc = "summary"
    /\ IF Get(meeting).bil_num = None
       THEN pc' = "crashed" /\ error' = Some("TypeError")
       ELSE pc' = "zip" /\ UNCHANGED error
    /\ UNCHANGED <<uploaded, paras, meeting, zip_buf>>

\* zip_buf = make_zip(meeting), then the download button is offered.
MakeZip ==
    /\ pc = "zip"
    /\ zip_buf' = Some(make_zip(Get(meeting)))
    /\ pc' = "download"
    /\ UNCHANGED <<uploaded, paras, meeting, error>>

Next == Upload \/ ParseOk \/ ParseFail \/ ShowSummary \/ MakeZip

Spec == Init /\ [][Next]_vars

\* The parser alone, applied to every agenda of the bounded set.
InitParse ==
    /\ pc = "parse"
    /\ uploaded \in {Some(d) : d \in Agendas}
    /\ paras = <<>>
    /\ meeting = None
    /\ zip_buf = None
    /\ error = None

NextParse == ParseOk \/ ParseFail

SpecParse == InitParse /\ [][NextParse]_vars

(* ------------------------------- claims -------------------------------- *)

\* The lines of the block of case c, as parse_agenda_docx cut and normalised them.
LinesOfCase(c) ==
    LET starts == block_starts(paras)
        idx == CHOOSE i \in 1..Len(starts) : starts[i] = c.start_i + 1
    IN BlockLines(Block(paras, starts, idx))

Parsed == meeting # None
Cases == Get(meeting).cases

\* The category token of a case-header line: the letters after "OSC/" in a line
\* that starts with the marker phrase and carries a code OSC/<letters>/<1 to 3
\* digits>/<4 digits>; empty for a line that is no case header.
HeaderCategory(p) ==
    LET i == Find(p, <<"O", "S", "C", "/">>, TRUE)
        n == AlphaRun(p, i + 4)
        d == DigitRun(p, i + 5 + n)
    IN IF /\ MatchLit(p, 1, <<"K", "E", "R", "T", "A", "S", " ", "M", "E", "S", "Y", "U", "A", "R", "A", "T">>, TRUE)
          /\ i # 0 /\ n > 0
          /\ MatchLit(p, i + 4 + n, <<"/">>, FALSE)
          /\ d \in 1..3
          /\ MatchLit(p, i + 5 + n + d, <<"/">>, FALSE)
          /\ DigitRun(p, i + 6 + n + d) >= 4
       THEN upper(SubSeq(p, i + 4, i + 3 + n))
       ELSE <<>>

RecognizedHeaders(ps) ==
    SelectSeq([i \in 1..Len(ps) |-> i], LAMBDA i : HeaderCategory(ps[i]) \in { <<"P", "K", "M">>, <<"B", "G", "N">> })

\* C1: the cases parse_agenda_docx returns are exactly the case-header lines whose
\* category token is PKM or BGN, in order of appearance, and their global_idx is
\* 1..N without gaps: a header with another category token is not in the result
\* and takes no index.
C1_CasesAreRecognizedHeaders ==
    Parsed =>
        /\ Len(Cases) = Len(RecognizedHeaders(paras))
        /\ \A k \in 1..Len(Cases) :
              /\ Cases[k].start_i + 1 = RecognizedHeaders(paras)[k]
              /\ Cases[k].jenis_code = HeaderCategory(paras[Cases[k].start_i + 1])
              /\ Cases[k].global_idx = k

\* C1 witness: two cases were returned and a header with another category token
\* stands between them.
C1_Witness ==
    /\ Parsed
    /\ Len(Cases) = 2
    /\ \E i \in 1..Len(paras) :
          /\ HeaderCategory(paras[i]) \notin { <<>>, <<"P", "K", "M">>, <<"B", "G", "N">> }
          /\ Cases[1].start_i + 1 < i
          /\ i < Cases[2].start_i + 1

\* C2: no letter is rendered and no archive is made unless both the meeting
\* identifier and the meeting date were found; when either is absent the run
\* fails before any case is rendered or archived.
C2_NoLetterWithoutMeetingInfo ==
    (zip_buf # None /\ Get(zip_buf) # <<>>)
        => (Get(meeting).bil_num # None /\ Get(meeting).date_str # None)

\* C3 (as claimed): the Reference Number of a letter starts with the meeting's
\* sequence number in parentheses and ends with the case's sequence index in
\* parentheses followed by the meeting year.
C3_Original ==
    zip_buf # None =>
        \A i \in 1..Len(Get(zip_buf)) :
            LET r == Get(zip_buf)[i].doc.rujukan_kami
                pre == <<"(">> \o IntToStr(Get(Get(meeting).bil_num)) \o <<")">>
                suf == <<"(">> \o IntToStr(Cases[i].global_idx) \o <<")">>
                       \o IntToStr(Get(Get(meeting).meeting_year))
            IN MatchLit(r, 1, pre, FALSE) /\ MatchLit(r, Len(r) - Len(suf) + 1, suf, FALSE)

\* C3 (amended): the Reference Number of the i-th letter is
\* (<case_seq>)MBSP/15/1551/( )<year>: the case's sequence index in the first
\* parentheses, a blank in the second, and the meeting year (the case's paper
\* year when the meeting year is 0) at the end; the meeting's sequence number
\* is not part of it.
C3_ReferenceNumber ==
    zip_buf # None =>
        \A i \in 1..Len(Get(zip_buf)) :
            Get(zip_buf)[i].doc.rujukan_kami =
                <<"(">> \o IntToStr(i) \o <<")", "M", "B", "S", "P", "/", "1", "5", "/", "1", "5", "5", "1", "/", "(", " ", ")">>
                \o IntToStr(IF Get(Get(meeting).meeting_year) # 0
                            THEN Get(Get(meeting).meeting_year)
                            ELSE Cases[i].kertas_year)

\* C3 witness: a letter was rendered for a second case of a meeting whose
\* sequence number is neither 1 nor 2.
C3_Witness ==
    /\ zip_buf # None
    /\ Len(Get(zip_buf)) >= 2
    /\ Get(Get(meeting).bil_num) = 3

\* C4 (as claimed): the archive has one entry per case, named by the letter's
\* Reference Number with "/" replaced by "-" (with or without ".docx").
C4_Original ==
    zip_buf # None =>
        /\ Len(Get(zip_buf)) = Len(Cases)
        /\ \A i \in 1..Len(Get(zip_buf)) :
              LET stem == Replace(Get(zip_buf)[i].doc.rujukan_kami, <<"/">>, <<"-">>)
              IN Get(zip_buf)[i].name \in {stem, stem \o <<".", "d", "o", "c", "x">>}

\* The applicant part of an entry name, for an applicant already without
\* "Tetuan ": a whitespace character is kept (as "_") only when it starts a run.
ApplicantStem(s) ==
    LET kept == SelectSeq(strip(s), LAMBDA c : c \notin {"\\", "/", "*", "?", ":", "\"", "<", ">", "|"})
        t == SelectSeq([i \in 1..Len(kept) |-> IF ~IsSpace(kept[i]) THEN <<kept[i]>>
                                               ELSE IF i > 1 /\ IsSpace(kept[i - 1]) THEN <<>>
                                               ELSE <<"_">>],
                       LAMBDA x : x # <<>>)
    IN IF t = <<>> THEN <<"D", "o", "k", "u", "m", "e", "n">>
       ELSE [i \in 1..(IF Len(t) < 60 THEN Len(t) ELSE 60) |-> t[i][1]]

\* C4 (amended): the archive has one entry per case, in the order of the cases,
\* and the i-th is named <i, 2 digits>_OSC_<category>_<paper number, 2 digits for
\* PKM and 3 for BGN>_<year>_<applicant>.docx, the applicant without "Tetuan ",
\* without the characters \ / * ? : " < > |, with "_" for each run of whitespace,
\* cut to 60 characters, "Dokumen" when empty; the Reference Number is not in it.
C4_ArchiveNames ==
    zip_buf # None =>
        /\ Len(Get(zip_buf)) = Len(Cases)
        /\ \A i \in 1..Len(Get(zip_buf)) :
              Get(zip_buf)[i].name =
                  Pad(i, 2) \o <<"_", "O", "S", "C", "_">> \o Cases[i].jenis_code \o <<"_">>
                  \o Pad(Cases[i].kertas_no, IF Cases[i].jenis_code = <<"P", "K", "M">> THEN 2 ELSE 3)
                  \o <<"_">>
                  \o IntToStr(IF Get(Get(meeting).meeting_year) # 0
                              THEN Get(Get(meeting).meeting_year)
                              ELSE Cases[i].kertas_year)
                  \o <<"_">>
                  \o ApplicantStem(strip(Replace(Cases[i].pemohon, <<"T", "e", "t", "u", "a", "n", " ">>, <<>>)))
                  \o <<".", "d", "o", "c", "x">>

\* C4 witness: an archive with the entry of a case whose applicant holds a path
\* separator and a run of whitespace.
C4_Witness ==
    /\ zip_buf # None
    /\ Len(Get(zip_buf)) >= 1
    /\ \E i \in 1..Len(Cases) : Cases[i].pemohon = <<"T", "e", "t", "u", "a", "n", " ", "A", "/", "B", " ", "C">>

\* The first line of lines that starts with label, whitespace and a colon (0: none).
LabelLine(lines, label) ==
    LET hits == {i \in 1..Len(lines) :
                    /\ MatchLit(lines[i], 1, label, TRUE)
                    /\ MatchLit(lines[i], SkipSpace(lines[i], 1 + Len(label)), <<":">>, FALSE)}
    IN IF hits = {} THEN 0 ELSE Min(hits)

RECURSIVE Continuation(_, _)
\* The lines from position j on, up to the first one that matches a label,
\* each with a space before it.
Continuation(lines, j) ==
    IF j > Len(lines) \/ field_pat(lines[j]) THEN <<>>
    ELSE <<" ">> \o lines[j] \o Continuation(lines, j + 1)

\* C5: when the line "Pemohon: v" is followed by lines that match no label and
\* then by a label line, the applicant is v with those lines space-joined onto
\* it, single-spaced.
C5_ContinuationAccumulated ==
    Parsed =>
        \A k \in 1..Len(Cases) :
            LET lines == LinesOfCase(Cases[k])
                j == LabelLine(lines, <<"P", "e", "m", "o", "h", "o", "n">>)
            IN (/\ j # 0
                /\ j + 1 <= Len(lines)
                /\ ~field_pat(lines[j + 1])
                /\ \E e \in j + 2..Len(lines) : field_pat(lines[e]))
               => Cases[k].pemohon
                    = normalize_space(AfterColon(lines[j]) \o Continuation(lines, j + 1))

\* C6: the names of the entries of one archive are pairwise distinct.
C6_DistinctNames ==
    zip_buf # None =>
        \A i, j \in 1..Len(Get(zip_buf)) :
            i # j => Get(zip_buf)[i].name # Get(zip_buf)[j].name

\* C6 witness: an archive with two cases of the same applicant, category, paper
\* number and year.
C6_Witness ==
    /\ zip_buf # None
    /\ \E i, j \in 1..Len(Get(zip_buf)) :
          /\ i # j
          /\ Cases[i].pemohon = Cases[j].pemohon
          /\ Cases[i].jenis_code = Cases[j].jenis_code
          /\ Cases[i].kertas_no = Cases[j].kertas_no
          /\ Cases[i].kertas_year = Cases[j].kertas_year

\* C7: the Line Sequence holds every non-empty trimmed body paragraph and
\* every non-empty trimmed paragraph of every table cell, so that a case header
\* that stands only in a table cell is seen by the parser.
C7_TableLinesSeen ==
    Parsed =>
        /\ \A i \in 1..Len(Get(uploaded).paragraphs) :
              strip(Get(uploaded).paragraphs[i]) # <<>>
                 => strip(Get(uploaded).paragraphs[i]) \in Range(paras)
        /\ \A t \in 1..Len(Get(uploaded).tables) :
              \A r \in 1..Len(Get(uploaded).tables[t]) :
                 \A c \in 1..Len(Get(uploaded).tables[t][r]) :
                    \A q \in 1..Len(Get(uploaded).tables[t][r][c]) :
                       strip(Get(uploaded).tables[t][r][c][q]) # <<>>
                          => strip(Get(uploaded).tables[t][r][c][q]) \in Range(paras)

\* str.title() of one word.
Title(w) == [i \in 1..Len(w) |-> IF i = 1 THEN UpperChar(w[i]) ELSE LowerChar(w[i])]

\* The weekday written in parentheses after the date in the text t,
\* case-normalised; empty when there is no date or none is written.
WrittenWeekday(t) ==
    LET m2 == DateSearch(t)
        a == SkipSpace(t, Get(m2).end)
        n == AlphaRun(t, a + 1)
    IN IF m2 # None /\ MatchLit(t, a, <<"(">>, FALSE) /\ n > 0 /\ MatchLit(t, a + 1 + n, <<")">>, FALSE)
       THEN Title(SubSeq(t, a + 1, a + n))
       ELSE <<>>

\* The weekday of a calendar date by Sakamoto's method, Monday = 0.
MonthKey == <<0, 3, 2, 5, 0, 3, 5, 1, 4, 6, 2, 4>>
CalendarWeekday(y, m, d) ==
    LET yy == IF m < 3 THEN y - 1 ELSE y
    IN (((yy + (yy \div 4) - (yy \div 100) + (yy \div 400) + MonthKey[m] + d) % 7) + 6) % 7

MondayFirstNames == << <<"I", "s", "n", "i", "n">>, <<"S", "e", "l", "a", "s", "a">>, <<"R", "a", "b", "u">>, <<"K", "h", "a", "m", "i", "s">>, <<"J", "u", "m", "a", "a", "t">>, <<"S", "a", "b", "t", "u">>, <<"A", "h", "a", "d">> >>

\* Day d of month m of year y exists in the calendar.
IsCalendarDate(y, m, d) ==
    /\ y >= 1 /\ d >= 1
    /\ d <= (CASE m \in {1, 3, 5, 7, 8, 10, 12} -> 31
               [] m \in {4, 6, 9, 11} -> 30
               [] OTHER -> IF (y % 4 = 0 /\ y % 100 # 0) \/ y % 400 = 0 THEN 29 ELSE 28)

\* C8 (as claimed): the weekday of the meeting info is the weekday written in
\* parentheses after the date whenever one is written, and the weekday of the
\* parsed date only when none is written.
C8_Original ==
    (Parsed /\ Get(meeting).date_str # None) =>
        IF WrittenWeekday(JoinLines(paras)) # <<>>
        THEN Get(meeting).dow = Some(WrittenWeekday(JoinLines(paras)))
        ELSE Get(meeting).dt # None =>
                Get(meeting).dow = Some(MondayFirstNames[
                    CalendarWeekday(Get(Get(meeting).dt)[1], Get(Get(meeting).dt)[2],
                                    Get(Get(meeting).dt)[3]) + 1])

\* C8 (amended): the weekday of the meeting info is always the calendar weekday
\* of the parsed date, named by the Monday-first list, whether or not a weekday
\* is written after the date; it is absent when no date was found or the parsed
\* day, month and year are not a calendar date.
C8_WeekdayFromDate ==
    Parsed =>
        /\ Get(meeting).dt # None =>
              /\ Get(meeting).date_str # None
              /\ Get(meeting).dow = Some(MondayFirstNames[
                    CalendarWeekday(Get(Get(meeting).dt)[1], Get(Get(meeting).dt)[2],
                                    Get(Get(meeting).dt)[3]) + 1])
        /\ Get(meeting).dt = None => Get(meeting).dow = None
        /\ Get(meeting).date_str # None =>
              LET g == Get(DateSearch(JoinLines(paras)))
              IN IF IsCalendarDate(g.yr, g.mon, g.day)
                 THEN Get(meeting).dt = Some(<<g.yr, g.mon, g.day>>)
                 ELSE Get(meeting).dt = None

\* C8 witness: "(AHAD)" is written after 12 Januari 2026, a Monday, and the
\* meeting info says Isnin.
C8_Witness ==
    /\ Parsed
    /\ WrittenWeekday(JoinLines(paras)) = <<"A", "h", "a", "d">>
    /\ Get(meeting).dow = Some(<<"I", "s", "n", "i", "n">>)

\* The value after the colon of the first line that starts with label,
\* whitespace and a colon; empty when there is no such line.
LabelValue(lines, label) ==
    IF LabelLine(lines, label) = 0 THEN <<>> ELSE AfterColon(lines[LabelLine(lines, label)])

\* C9: applicant, consultant and reference id are each taken from the first line
\* that starts with the label followed by a colon; a line that only begins with
\* the letters of the label neither gives the value nor hides a later label
\* line; without a label line the value is empty.
C9_ColonRequired ==
    Parsed =>
        \A k \in 1..Len(Cases) :
            /\ Cases[k].pemohon = LabelValue(LinesOfCase(Cases[k]), <<"P", "e", "m", "o", "h", "o", "n">>)
            /\ Cases[k].perunding = LabelValue(LinesOfCase(Cases[k]), <<"P", "e", "r", "u", "n", "d", "i", "n", "g">>)
            /\ Cases[k].no_ruj_osc = LabelValue(LinesOfCase(Cases[k]), <<"N", "o", ".", " ", "R", "u", "j", "u", "k", "a", "n", " ", "O", "S", "C">>)

\* The lines of a block before the first one that matches a label.
Description(lines) ==
    SubSeq(lines, 1, Min({i \in 1..Len(lines) : field_pat(lines[i])} \cup {Len(lines) + 1}) - 1)

\* The first position of the whole word "Pemohon" in s, in any case (0: none).
PemohonWord(s) ==
    LET hits == {i \in 1..Len(s) :
                    /\ MatchLit(s, i, <<"P", "e", "m", "o", "h", "o", "n">>, TRUE)
                    /\ (i = 1 \/ ~IsWord(s[i - 1]))
                    /\ (i + 7 > Len(s) \/ ~IsWord(s[i + 7]))}
    IN IF hits = {} THEN 0 ELSE Min(hits)

\* C10 (as claimed): the description of a case is all the lines of its block
\* before the first label line, each kept whole.
C10_Original ==
    Parsed =>
        \A k \in 1..Len(Cases) :
            Cases[k].nama_permohonan = JoinLines(Description(LinesOfCase(Cases[k])))

\* C10 (amended): the description of a case is the lines of its block before
\* the first label line, joined by line breaks, and cut before the first whole
\* word "Pemohon" (in any case) in them, then trimmed: a description line with
\* that word in mid-sentence is truncated there and the lines after it are
\* dropped; without that word every line is kept whole.
C10_DescriptionCutAtPemohon ==
    Parsed =>
        \A k \in 1..Len(Cases) :
            LET d == JoinLines(Description(LinesOfCase(Cases[k])))
            IN Cases[k].nama_permohonan =
                  IF PemohonWord(d) = 0 THEN d ELSE strip(SubSeq(d, 1, PemohonWord(d) - 1))

\* C10 witness: a case whose description holds "Projek Pemohon ABC" and one
\* more line, and is "Projek".
C10_Witness ==
    /\ Parsed
    /\ \E k \in 1..Len(Cases) :
          /\ Len(Description(LinesOfCase(Cases[k]))) = 2
          /\ Description(LinesOfCase(Cases[k]))[1] = <<"P", "r", "o", "j", "e", "k", " ", "P", "e", "m", "o", "h", "o", "n", " ", "A", "B", "C">>
          /\ Cases[k].nama_permohonan = <<"P", "r", "o", "j", "e", "k">>

\* The header-derived and extracted fields of a case, without its position and
\* its index.
FieldsOf(c) ==
    [jenis_code |-> c.jenis_code, jenis_display |-> c.jenis_display,
     kertas_no |-> c.kertas_no, kertas_year |-> c.kertas_year,
     nama_permohonan |-> c.nama_permohonan, pemohon |-> c.pemohon,
     perunding |-> c.perunding, no_ruj_osc |-> c.no_ruj_osc]

\* The position of the first case-header line of ps after position h, of any
\* category token; Len(ps) + 1 when there is none.
NextHeader(ps, h) ==
    Min({i \in h + 1..Len(ps) : HeaderCategory(ps[i]) # <<>>} \cup {Len(ps) + 1})

\* C11: every case-header line ends the block before it, also a header whose
\* category token is not PKM or BGN: the description and the labelled fields of
\* a case depend on nothing but the lines from its own header up to the next
\* case-header line (or the end); parsing those lines alone gives one case with
\* the same fields, so no line before its header and no line at or after a later
\* header, retained or discarded, is drawn into it.
C11_FieldsFromOwnBlock ==
    Parsed =>
        \A k \in 1..Len(Cases) :
            LET h == Cases[k].start_i + 1
                alone == ParseParas(SubSeq(paras, h, NextHeader(paras, h) - 1)).cases
            IN /\ Len(alone) = 1
               /\ FieldsOf(alone[1]) = FieldsOf(Cases[k])

\* C11 witness: a case is followed by a header of another category and, after
\* that header, by an applicant line; the case has no applicant.
C11_Witness ==
    /\ Parsed
    /\ \E k \in 1..Len(Cases) :
          LET nx == NextHeader(paras, Cases[k].start_i + 1)
          IN /\ nx < Len(paras)
             /\ HeaderCategory(paras[nx]) \notin { <<"P", "K", "M">>, <<"B", "G", "N">> }
             /\ \E j \in nx + 1..Len(paras) : paras[j] = <<"P", "e", "m", "o", "h", "o", "n", ":", " ", "J", "o", "h", "n">>
             /\ Cases[k].pemohon = <<>>

=============================================================================
